---- MODULE Spec2Model ----
(***************************************************************************)
(* Model of the fyyur booking directory (src/app.py): the relational       *)
(* tables Venue, Artist, Show, venue_genres and artist_genres, the write   *)
(* and read handlers that act on them, and the projection helpers          *)
(* get_shows / parse_venue / parse_artist and the /venues grouping loop.   *)
(*                                                                         *)
(* Strings are sequences of one-character strings so that str.title() is   *)
(* computed, not assumed.  Tables with a composite primary key are bags of *)
(* rows (venue_genres, artist_genres, Show), so that the absence of        *)
(* duplicate keys is a property of the handlers and of the constraint      *)
(* check at commit, not of the representation.                             *)
(***************************************************************************)
EXTENDS Integers, Sequences, FiniteSets, Bags, TLC

VARIABLES
    Venue,           \* table Venue: id -> row
    Artist,          \* table Artist: id -> row
    Show,            \* table Show: bag of rows
    venue_genres,    \* association table: bag of <<venue_id, genre_id>>
    artist_genres,   \* association table: bag of <<artist_id, genre_id>>
    venue_id_seq,    \* last value handed out by the Venue.id sequence
    artist_id_seq,   \* last value handed out by the Artist.id sequence
    resp,            \* the response to the request handled last
    sess,            \* per worker: the request in flight between lookup and commit
    arg,             \* input of the projection under test
    out              \* its result

vars == <<Venue, Artist, Show, venue_genres, artist_genres,
          venue_id_seq, artist_id_seq, resp, sess, arg, out>>

tables == <<Venue, Artist, Show, venue_genres, artist_genres>>

----------------------------------------------------------------------------
(* Bounds *)

MaxVenueId == 2
MaxArtistId == 2
NumGenres == 2
MaxGenreSel == 2
MaxTime == 1
MaxLen == 3

----------------------------------------------------------------------------
(* Values *)

\* None / SQL NULL: a tuple that is not a string of characters
NULL == <<"NULL">>

LowerCase == {"a", "b"}
UpperCase == {"A", "B"}

upper(c) == CASE c = "a" -> "A" [] c = "b" -> "B" [] OTHER -> c
lower(c) == CASE c = "A" -> "a" [] c = "B" -> "b" [] OTHER -> c
isalpha(c) == c \in LowerCase \cup UpperCase

\* str.title(): the first letter of every run of letters in upper case,
\* the other letters in lower case
title(s) ==
    [i \in 1..Len(s) |->
        IF i = 1 \/ ~isalpha(s[i - 1]) THEN upper(s[i]) ELSE lower(s[i])]

\* str(x).title() as applied to a form field
str_title(x) == IF x = NULL THEN <<"N", "o", "n", "e">> ELSE title(x)

NameInputs == {<<"a", "B">>, <<"A", "b">>}
CityInputs == {<<"a">>}
StateInputs == {<<"T", "X">>, <<"N", "Y">>}
PhoneInputs == {NULL, <<"1">>}

GenreIds == 1..NumGenres
Times == 0..MaxTime

\* the genre ids of a submission: a list, in the order of the request
GenreLists == UNION {[1..n -> GenreIds] : n \in 0..MaxGenreSel}

----------------------------------------------------------------------------
(* Schema *)

VenueColumns == {"name", "city", "state", "phone"}
ArtistColumns == {"name", "phone"}

\* Venue(): a fresh instance, every column None
NewVenue == [k \in VenueColumns |-> NULL]
\* Artist(): a fresh instance, every column None
NewArtist == [k \in ArtistColumns |-> NULL]

----------------------------------------------------------------------------
(* Utils *)

\* the mutation of populate_model: copies None values too
populate_model_copy_none(data, model) ==
    [k \in DOMAIN model |-> IF k \in DOMAIN data THEN data[k] ELSE model[k]]

\* populate_model: for k, v in data.items(): if hasattr(model, k) and
\* v is not None: setattr(model, k, v)
populate_model(data, model) ==
    [k \in DOMAIN model |->
        IF k \in DOMAIN data /\ data[k] # NULL THEN data[k] ELSE model[k]]

----------------------------------------------------------------------------
(* Persistence: what the unit of work sends at commit and what the         *)
(* primary keys of the tables accept                                       *)

\* venue.genres / artist.genres as loaded from the association table
LoadedGenres(table, parent_id) ==
    {g \in GenreIds : CopiesIn(<<parent_id, g>>, table) > 0}

\* the rows the unit of work inserts for a collection that was appended to:
\* one per appended genre that the loaded collection did not hold, in the
\* order of the appends
RECURSIVE AddedRows(_, _, _)
AddedRows(parent_id, original, genres_ids) ==
    IF genres_ids = <<>> THEN <<>>
    ELSE LET rest == AddedRows(parent_id, original, Tail(genres_ids))
         IN IF Head(genres_ids) \in original THEN rest
            ELSE <<(<<parent_id, Head(genres_ids)>>)>> \o rest

\* the mutation of PrimaryKeyViolated: a table without primary key
NoPrimaryKey(table, rows) == FALSE

\* primary_key=True on both columns: an insert is rejected when its key is
\* in the table or occurs twice among the inserted rows
PrimaryKeyViolated(table, rows) ==
    \/ \E i \in 1..Len(rows) : CopiesIn(rows[i], table) > 0
    \/ \E i, j \in 1..Len(rows) : i < j /\ rows[i] = rows[j]

RECURSIVE InsertRows(_, _)
InsertRows(table, rows) ==
    IF rows = <<>> THEN table
    ELSE InsertRows(table (+) SetToBag({Head(rows)}), Tail(rows))

\* the association rows of a deleted parent go with it
DeleteRowsOf(table, parent_id) ==
    [r \in {x \in BagToSet(table) : x[1] # parent_id} |-> table[r]]

\* the mutation of ShowKeyTaken: Show without primary key
ShowNoPrimaryKey(venue_id, artist_id) == FALSE

\* Show: primary key (venue_id, artist_id)
ShowKeyTaken(venue_id, artist_id) ==
    \E r \in BagToSet(Show) : r.venue_id = venue_id /\ r.artist_id = artist_id

\* the orders in which a query may return a set of rows (no ORDER BY)
Orderings(rows) ==
    {f \in [1..Cardinality(rows) -> rows] :
        \A i, j \in 1..Cardinality(rows) : i # j => f[i] # f[j]}

\* the value of an id sequence after a flush: nextval is taken by the INSERT
\* of a new row and is not given back when the transaction rolls back
id_after_insert(is_new, id, id_seq) == IF is_new THEN id ELSE id_seq

\* venue.artists: the Show rows of a venue
ShowsOfVenue(venue_id) == {r \in BagToSet(Show) : r.venue_id = venue_id}
\* artist.venues: the Show rows of an artist
ShowsOfArtist(artist_id) == {r \in BagToSet(Show) : r.artist_id = artist_id}

----------------------------------------------------------------------------
(* Responses *)

NoBody == <<>>

\* every response names the view function that handled the request
Render(handler, page, flash) ==
    [handler |-> handler, status |-> 200, page |-> page, flash |-> flash,
     body |-> NoBody]
RenderData(handler, page, body) ==
    [handler |-> handler, status |-> 200, page |-> page, flash |-> "none",
     body |-> body]
Redirect(handler, endpoint, flash) ==
    [handler |-> handler, status |-> 302, page |-> endpoint, flash |-> flash,
     body |-> NoBody]
\* abort(404) -> not_found_error
NotFound(handler) ==
    [handler |-> handler, status |-> 404, page |-> "errors/404.html",
     flash |-> "none", body |-> NoBody]
\* an exception no handler catches -> server_error
ServerError(handler) ==
    [handler |-> handler, status |-> 500, page |-> "errors/500.html",
     flash |-> "none", body |-> NoBody]

----------------------------------------------------------------------------
(* Projections *)

\* the mutation of get_shows_loop: a show that starts now is past
RECURSIVE get_shows_loop_now_is_past(_, _, _)
get_shows_loop_now_is_past(shows, today, data) ==
    IF shows = <<>> THEN data
    ELSE LET show == Head(shows)
         IN get_shows_loop_now_is_past(Tail(shows), today,
                IF today >= show.start_time
                THEN [data EXCEPT !.past_shows = Append(@, show)]
                ELSE [data EXCEPT !.upcoming_shows = Append(@, show)])

RECURSIVE get_shows_loop(_, _, _)
get_shows_loop(shows, today, data) ==
    IF shows = <<>> THEN data
    ELSE LET show == Head(shows)
         IN get_shows_loop(Tail(shows), today,
                IF today > show.start_time
                THEN [data EXCEPT !.past_shows = Append(@, show)]
                ELSE [data EXCEPT !.upcoming_shows = Append(@, show)])

\* get_shows(model, attr) with shows = getattr(model, attr) and
\* today = datetime.today()
get_shows(shows, today) ==
    get_shows_loop(shows, today, [upcoming_shows |-> <<>>, past_shows |-> <<>>])

parse_show_for_venue(show) ==
    [artist_id |-> show.artist_id, start_time |-> show.start_time]

parse_show_for_artist(show) ==
    [venue_id |-> show.venue_id, start_time |-> show.start_time]

\* parse_venue, with venue.artists given as the list the query returned
parse_venue(venue_id, venue, artists, today) ==
    LET shows == get_shows(artists, today)
        past_shows == [i \in 1..Len(shows.past_shows) |-> parse_show_for_venue(shows.past_shows[i])]
        upcoming_shows == [i \in 1..Len(shows.upcoming_shows) |-> parse_show_for_venue(shows.upcoming_shows[i])]
    IN [id |-> venue_id, name |-> venue.name, city |-> venue.city,
        state |-> venue.state, phone |-> venue.phone,
        past_shows |-> past_shows, upcoming_shows |-> upcoming_shows,
        past_shows_count |-> Len(past_shows),
        upcoming_shows_count |-> Len(upcoming_shows)]

\* parse_artist, with artist.venues given as the list the query returned
parse_artist(artist_id, artist, venues_, today) ==
    LET shows == get_shows(venues_, today)
        past_shows == [i \in 1..Len(shows.past_shows) |-> parse_show_for_artist(shows.past_shows[i])]
        upcoming_shows == [i \in 1..Len(shows.upcoming_shows) |-> parse_show_for_artist(shows.upcoming_shows[i])]
    IN [id |-> artist_id, name |-> artist.name, phone |-> artist.phone,
        past_shows |-> past_shows, upcoming_shows |-> upcoming_shows,
        past_shows_count |-> Len(past_shows),
        upcoming_shows_count |-> Len(upcoming_shows)]

Min(S) == CHOOSE x \in S : \A y \in S : x <= y

venue_entry(venue, today) ==
    [id |-> venue.id, name |-> venue.name,
     num_upcoming_shows |-> Len(get_shows(venue.artists, today).upcoming_shows)]

\* the mutation of venues_loop: a venue joins the first group of its city,
\* whatever the state
RECURSIVE venues_loop_city_only(_, _, _)
venues_loop_city_only(venue_list, today, data) ==
    IF venue_list = <<>> THEN data
    ELSE LET venue == Head(venue_list)
             matching == {i \in 1..Len(data) : data[i].city = venue.city}
         IN venues_loop_city_only(Tail(venue_list), today,
                IF matching # {}
                THEN [data EXCEPT ![Min(matching)].venues =
                                      Append(@, venue_entry(venue, today))]
                ELSE Append(data, [city |-> venue.city, state |-> venue.state,
                                   venues |-> <<venue_entry(venue, today)>>]))

\* the loop of the /venues handler: for venue in venues: for venue_data in
\* data: if state and city match: append, break; else: append a new group
RECURSIVE venues_loop(_, _, _)
venues_loop(venue_list, today, data) ==
    IF venue_list = <<>> THEN data
    ELSE LET venue == Head(venue_list)
             matching == {i \in 1..Len(data) :
                             /\ data[i].state = venue.state
                             /\ data[i].city = venue.city}
         IN venues_loop(Tail(venue_list), today,
                IF matching # {}
                THEN [data EXCEPT ![Min(matching)].venues =
                                      Append(@, venue_entry(venue, today))]
                ELSE Append(data, [city |-> venue.city, state |-> venue.state,
                                   venues |-> <<venue_entry(venue, today)>>]))

\* the areas the /venues handler renders for the rows Venue.query.all() returned
venues(venue_list, today) == venues_loop(venue_list, today, <<>>)

----------------------------------------------------------------------------
(* Write handlers.  Each is the whole handler, from the form to the        *)
(* response; the forms' validate() is an input.                            *)

venue_side == <<Venue, venue_genres, venue_id_seq>>
artist_side == <<Artist, artist_genres, artist_id_seq>>

VenueFormData(name, city, state, phone) ==
    [name |-> name, city |-> city, state |-> state, phone |-> phone,
     csrf_token |-> <<"t">>]

ArtistFormData(name, phone) ==
    [name |-> name, phone |-> phone, csrf_token |-> <<"t">>]

\* Venue.query.filter(name, city, state).first(): one of the matching rows,
\* or 0 for None
FirstVenue(name, city, state) ==
    LET matching == {id \in DOMAIN Venue :
                        /\ Venue[id].name = name
                        /\ Venue[id].city = city
                        /\ Venue[id].state = state}
    IN IF matching = {} THEN {0} ELSE matching

\* Artist.query.filter_by(name).first()
FirstArtist(name) ==
    LET matching == {id \in DOMAIN Artist : Artist[id].name = name}
    IN IF matching = {} THEN {0} ELSE matching

\* the mutation of SaveVenue: the lookup is repeated under a lock at commit
SaveVenueSerialised(handler, found, data, genres_ids, ok) ==
    \E now_found \in FirstVenue(data.name, data.city, data.state) :
        LET is_new == now_found = 0
            id == IF is_new THEN venue_id_seq + 1 ELSE now_found
            venue == populate_model(data, IF is_new THEN NewVenue ELSE Venue[now_found])
            original == IF is_new THEN {} ELSE LoadedGenres(venue_genres, now_found)
            rows == AddedRows(id, original, genres_ids)
        IN /\ is_new => venue_id_seq < MaxVenueId
           /\ venue_id_seq' = id_after_insert(is_new, id, venue_id_seq)
           /\ IF PrimaryKeyViolated(venue_genres, rows)
              THEN /\ resp' = ServerError(handler)
                   /\ UNCHANGED <<Venue, venue_genres>>
              ELSE /\ resp' = ok
                   /\ Venue' = [i \in DOMAIN Venue \cup {id} |->
                                   IF i = id THEN venue ELSE Venue[i]]
                   /\ venue_genres' = InsertRows(venue_genres, rows)

\* populate_model, the appends to venue.genres, session.add and commit, for
\* the row found (or a new one when found = 0)
SaveVenue(handler, found, data, genres_ids, ok) ==
    LET is_new == found = 0
        id == IF is_new THEN venue_id_seq + 1 ELSE found
        venue == populate_model(data, IF is_new THEN NewVenue ELSE Venue[found])
        original == IF is_new THEN {} ELSE LoadedGenres(venue_genres, found)
        rows == AddedRows(id, original, genres_ids)
    IN /\ is_new => venue_id_seq < MaxVenueId
       /\ venue_id_seq' = id_after_insert(is_new, id, venue_id_seq)
       /\ IF PrimaryKeyViolated(venue_genres, rows)
          THEN /\ resp' = ServerError(handler)
               /\ UNCHANGED <<Venue, venue_genres>>
          ELSE /\ resp' = ok
               /\ Venue' = [i \in DOMAIN Venue \cup {id} |->
                               IF i = id THEN venue ELSE Venue[i]]
               /\ venue_genres' = InsertRows(venue_genres, rows)

SaveArtist(handler, found, data, genres_ids, ok) ==
    LET is_new == found = 0
        id == IF is_new THEN artist_id_seq + 1 ELSE found
        artist == populate_model(data, IF is_new THEN NewArtist ELSE Artist[found])
        original == IF is_new THEN {} ELSE LoadedGenres(artist_genres, found)
        rows == AddedRows(id, original, genres_ids)
    IN /\ is_new => artist_id_seq < MaxArtistId
       /\ artist_id_seq' = id_after_insert(is_new, id, artist_id_seq)
       /\ IF PrimaryKeyViolated(artist_genres, rows)
          THEN /\ resp' = ServerError(handler)
               /\ UNCHANGED <<Artist, artist_genres>>
          ELSE /\ resp' = ok
               /\ Artist' = [i \in DOMAIN Artist \cup {id} |->
                                IF i = id THEN artist ELSE Artist[i]]
               /\ artist_genres' = InsertRows(artist_genres, rows)

create_venue_submission(valid, name, city, state, phone, genres_ids) ==
    LET form_name == str_title(name)
        form_city == str_title(city)
        data == VenueFormData(form_name, form_city, state, phone)
    IN /\ IF valid
          THEN \E venue \in FirstVenue(form_name, form_city, state) :
                  SaveVenue("create_venue_submission", venue, data, genres_ids,
                            Render("create_venue_submission", "pages/home.html", "success"))
          ELSE /\ resp' = Render("create_venue_submission", "forms/new_venue.html", "error")
               /\ UNCHANGED venue_side
       /\ UNCHANGED <<artist_side, Show>>

\* the mutation of delete_venue: the Venue row goes, its Shows stay
delete_venue_keeps_shows(venue_id) ==
    /\ IF venue_id \notin DOMAIN Venue
       THEN /\ resp' = ServerError("delete_venue")
            /\ UNCHANGED <<Venue, venue_genres>>
       ELSE /\ resp' = Redirect("delete_venue", "index", "success")
            /\ Venue' = [i \in DOMAIN Venue \ {venue_id} |-> Venue[i]]
            /\ venue_genres' = DeleteRowsOf(venue_genres, venue_id)
    /\ UNCHANGED <<venue_id_seq, artist_side, Show>>

delete_venue(venue_id) ==
    /\ IF venue_id \notin DOMAIN Venue
       THEN \* db.session.delete(None)
            /\ resp' = ServerError("delete_venue")
            /\ UNCHANGED <<Venue, venue_genres>>
       ELSE IF ShowsOfVenue(venue_id) # {}
       THEN \* the flush would blank out Show.venue_id, a primary key column
            /\ resp' = ServerError("delete_venue")
            /\ UNCHANGED <<Venue, venue_genres>>
       ELSE /\ resp' = Redirect("delete_venue", "index", "success")
            /\ Venue' = [i \in DOMAIN Venue \ {venue_id} |-> Venue[i]]
            /\ venue_genres' = DeleteRowsOf(venue_genres, venue_id)
    /\ UNCHANGED <<venue_id_seq, artist_side, Show>>

edit_artist_submission(artist_id, valid, name, phone, genres_ids) ==
    /\ IF valid
       THEN IF artist_id \notin DOMAIN Artist
            THEN \* artist is None: artist.genres or session.add(None) raises
                 /\ resp' = ServerError("edit_artist_submission")
                 /\ UNCHANGED artist_side
            ELSE SaveArtist("edit_artist_submission", artist_id, ArtistFormData(name, phone), genres_ids,
                            Redirect("edit_artist_submission", "show_artist", "success"))
       ELSE /\ resp' = NotFound("edit_artist_submission")
            /\ UNCHANGED artist_side
    /\ UNCHANGED <<venue_side, Show>>

edit_venue_submission(venue_id, valid, name, city, state, phone, genres_ids) ==
    /\ IF valid
       THEN IF venue_id \notin DOMAIN Venue
            THEN \* venue is None: venue.genres or session.add(None) raises
                 /\ resp' = ServerError("edit_venue_submission")
                 /\ UNCHANGED venue_side
            ELSE SaveVenue("edit_venue_submission", venue_id, VenueFormData(name, city, state, phone),
                           genres_ids, Redirect("edit_venue_submission", "show_venue", "success"))
       ELSE /\ resp' = NotFound("edit_venue_submission")
            /\ UNCHANGED venue_side
    /\ UNCHANGED <<artist_side, Show>>

create_artist_submission(valid, name, phone, genres_ids) ==
    LET form_name == str_title(name)
        data == ArtistFormData(form_name, phone)
    IN /\ IF valid
          THEN \E artist \in FirstArtist(form_name) :
                  SaveArtist("create_artist_submission", artist, data, genres_ids,
                             Render("create_artist_submission", "pages/home.html", "success"))
          ELSE /\ resp' = Render("create_artist_submission", "forms/new_artist.html", "error")
               /\ UNCHANGED artist_side
       /\ UNCHANGED <<venue_side, Show>>

create_show_submission(valid, venue_id, artist_id, start_time) ==
    /\ IF valid
       THEN IF venue_id \notin DOMAIN Venue \/ artist_id \notin DOMAIN Artist
            THEN /\ resp' = NotFound("create_show_submission")
                 /\ UNCHANGED Show
            ELSE IF ShowKeyTaken(venue_id, artist_id)
            THEN \* the INSERT collides with the primary key
                 /\ resp' = ServerError("create_show_submission")
                 /\ UNCHANGED Show
            ELSE /\ resp' = Render("create_show_submission", "pages/home.html", "success")
                 /\ Show' = Show (+) SetToBag({[venue_id |-> venue_id,
                                                artist_id |-> artist_id,
                                                start_time |-> start_time]})
       ELSE /\ resp' = Render("create_show_submission", "forms/new_show.html", "error")
            /\ UNCHANGED Show
    /\ UNCHANGED <<venue_side, artist_side>>

----------------------------------------------------------------------------
(* Read handlers that look a row up by id *)

show_venue(venue_id, today) ==
    /\ IF venue_id \notin DOMAIN Venue
       THEN resp' = NotFound("show_venue")
       ELSE \E artists \in Orderings(ShowsOfVenue(venue_id)) :
               resp' = RenderData("show_venue", "pages/show_venue.html",
                           parse_venue(venue_id, Venue[venue_id], artists, today))
    /\ UNCHANGED <<venue_side, artist_side, Show>>

show_artist(artist_id, today) ==
    /\ IF artist_id \notin DOMAIN Artist
       THEN resp' = NotFound("show_artist")
       ELSE \E venues_ \in Orderings(ShowsOfArtist(artist_id)) :
               resp' = RenderData("show_artist", "pages/show_artist.html",
                           parse_artist(artist_id, Artist[artist_id], venues_, today))
    /\ UNCHANGED <<venue_side, artist_side, Show>>

edit_artist(artist_id, today) ==
    /\ IF artist_id \notin DOMAIN Artist
       THEN resp' = NotFound("edit_artist")
       ELSE \E venues_ \in Orderings(ShowsOfArtist(artist_id)) :
               resp' = RenderData("edit_artist", "forms/edit_artist.html",
                           parse_artist(artist_id, Artist[artist_id], venues_, today))
    /\ UNCHANGED <<venue_side, artist_side, Show>>

edit_venue(venue_id, today) ==
    /\ IF venue_id \notin DOMAIN Venue
       THEN resp' = NotFound("edit_venue")
       ELSE \E artists \in Orderings(ShowsOfVenue(venue_id)) :
               resp' = RenderData("edit_venue", "forms/edit_venue.html",
                           parse_venue(venue_id, Venue[venue_id], artists, today))
    /\ UNCHANGED <<venue_side, artist_side, Show>>

----------------------------------------------------------------------------
(* Requests handled one at a time *)

VenueIds == 1..MaxVenueId
ArtistIds == 1..MaxArtistId
\* the reading of datetime.today() during a request
Clock == {MaxTime}

EditNameInputs == {NULL, <<"a", "B">>}
EditArtistNameInputs == {NULL}
EditCityInputs == {NULL}
EditStateInputs == {NULL} \cup StateInputs

NoResponse == Render("none", "none", "none")
Idle == [pc |-> "idle"]
Workers == {1, 2}

\* the database after the migrations, before any request
EmptyDatabase ==
    /\ Venue = <<>>
    /\ Artist = <<>>
    /\ Show = EmptyBag
    /\ venue_genres = EmptyBag
    /\ artist_genres = EmptyBag
    /\ venue_id_seq = 0
    /\ artist_id_seq = 0
    /\ resp = NoResponse
    /\ sess = [w \in Workers |-> Idle]

Init ==
    /\ EmptyDatabase
    /\ arg = <<>>
    /\ out = <<>>

OneName == {<<"a", "B">>}
OneState == {<<"T", "X">>}

\* submissions that select no genre or genre 1
OneGenreLists == {<<>>, <<1>>}

CreateVenueWith(names, states, phones, genre_lists) ==
    \E valid \in BOOLEAN, name \in names, city \in CityInputs,
       state \in states, phone \in phones, genres_ids \in genre_lists :
        create_venue_submission(valid, name, city, state, phone, genres_ids)

EditVenueWith(names, states, phones, genre_lists) ==
    \E venue_id \in VenueIds, valid \in BOOLEAN, name \in names,
       city \in EditCityInputs, state \in states,
       phone \in phones, genres_ids \in genre_lists :
        edit_venue_submission(venue_id, valid, name, city, state, phone, genres_ids)

CreateArtistWith(names, phones, genre_lists) ==
    \E valid \in BOOLEAN, name \in names, phone \in phones,
       genres_ids \in genre_lists :
        create_artist_submission(valid, name, phone, genres_ids)

EditArtistWith(names, phones, genre_lists) ==
    \E artist_id \in ArtistIds, valid \in BOOLEAN, name \in names,
       phone \in phones, genres_ids \in genre_lists :
        edit_artist_submission(artist_id, valid, name, phone, genres_ids)

\* what a request handled in one piece leaves alone
aux == <<sess, arg, out>>

CreateVenue ==
    /\ CreateVenueWith(NameInputs, StateInputs, {NULL}, OneGenreLists)
    /\ UNCHANGED aux
EditVenue ==
    /\ EditVenueWith({NULL}, EditStateInputs, {NULL}, {<<>>})
    /\ UNCHANGED aux
DeleteVenue == (\E venue_id \in VenueIds : delete_venue(venue_id)) /\ UNCHANGED aux
CreateArtist ==
    /\ CreateArtistWith(NameInputs, {NULL}, OneGenreLists)
    /\ UNCHANGED aux
EditArtist ==
    /\ EditArtistWith(EditArtistNameInputs, {NULL}, {<<>>})
    /\ UNCHANGED aux

CreateShow ==
    /\ \E valid \in BOOLEAN, venue_id \in VenueIds, artist_id \in ArtistIds,
          start_time \in Times :
           create_show_submission(valid, venue_id, artist_id, start_time)
    /\ UNCHANGED aux

ShowVenue ==
    /\ \E venue_id \in VenueIds, today \in Clock : show_venue(venue_id, today)
    /\ UNCHANGED aux
ShowArtist ==
    /\ \E artist_id \in ArtistIds, today \in Clock : show_artist(artist_id, today)
    /\ UNCHANGED aux
EditVenueForm ==
    /\ \E venue_id \in VenueIds, today \in Clock : edit_venue(venue_id, today)
    /\ UNCHANGED aux
EditArtistForm ==
    /\ \E artist_id \in ArtistIds, today \in Clock : edit_artist(artist_id, today)
    /\ UNCHANGED aux

Next ==
    \/ CreateVenue
    \/ EditVenue
    \/ DeleteVenue
    \/ CreateArtist
    \/ EditArtist
    \/ CreateShow
    \/ ShowVenue
    \/ ShowArtist
    \/ EditVenueForm
    \/ EditArtistForm

Spec == Init /\ [][Next]_vars

----------------------------------------------------------------------------
(* Properties of the handlers when requests are handled one at a time      *)

VenueKeyIn(table, id) == <<table[id].name, table[id].city, table[id].state>>
VenueKey(id) == VenueKeyIn(Venue, id)

\* C2: no two distinct Venue rows have the same (name, city, state)
C2_VenueKeyUnique ==
    \A i, j \in DOMAIN Venue : i # j => VenueKey(i) # VenueKey(j)

FormPages ==
    {"forms/new_venue.html", "forms/new_artist.html", "forms/new_show.html",
     "forms/edit_venue.html", "forms/edit_artist.html"}

\* a write handler run on a form that fails validation
InvalidSubmission ==
    \/ \E name \in NameInputs, city \in CityInputs, state \in StateInputs :
          create_venue_submission(FALSE, name, city, state, NULL, <<>>)
    \/ \E name \in NameInputs : create_artist_submission(FALSE, name, NULL, <<>>)
    \/ \E venue_id \in VenueIds, artist_id \in ArtistIds, start_time \in Times :
          create_show_submission(FALSE, venue_id, artist_id, start_time)
    \/ \E venue_id \in VenueIds :
          edit_venue_submission(venue_id, FALSE, NULL, NULL, NULL, NULL, <<>>)
    \/ \E artist_id \in ArtistIds :
          edit_artist_submission(artist_id, FALSE, NULL, NULL, <<>>)

\* C4: a write handler whose form fails validation re-renders the form with
\* a flash message and leaves every table as it was
C4_InvalidFormRerendered ==
    [][InvalidSubmission =>
          /\ UNCHANGED tables
          /\ resp'.status = 200
          /\ resp'.page \in FormPages
          /\ resp'.flash = "error"]_vars

\* a handler run on an id that matches no row
MissingIdLookup ==
    \/ \E venue_id \in VenueIds \ DOMAIN Venue :
          \/ \E today \in Clock : show_venue(venue_id, today)
          \/ \E today \in Clock : edit_venue(venue_id, today)
          \/ delete_venue(venue_id)
          \/ \E valid \in BOOLEAN :
                edit_venue_submission(venue_id, valid, NULL, NULL, NULL, NULL, <<>>)
    \/ \E artist_id \in ArtistIds \ DOMAIN Artist :
          \/ \E today \in Clock : show_artist(artist_id, today)
          \/ \E today \in Clock : edit_artist(artist_id, today)
          \/ \E valid \in BOOLEAN :
                edit_artist_submission(artist_id, valid, NULL, NULL, <<>>)
    \/ \E venue_id \in VenueIds, artist_id \in ArtistIds, start_time \in Times :
          /\ venue_id \notin DOMAIN Venue \/ artist_id \notin DOMAIN Artist
          /\ create_show_submission(TRUE, venue_id, artist_id, start_time)

\* C5: a lookup by an id that matches no row answers 404 and changes nothing
C5_MissingIdIs404 ==
    [][MissingIdLookup => (resp'.status = 404 /\ UNCHANGED tables)]_vars

-----------------------------------------------------------------------------
(* Booking: venues and artists are created, shows are listed for them and  *)
(* venues are deleted                                                      *)

BookCreateVenue ==
    /\ CreateVenueWith(OneName, StateInputs, {NULL}, {<<>>})
    /\ UNCHANGED aux
BookCreateArtist ==
    /\ CreateArtistWith(OneName, {NULL}, {<<>>})
    /\ UNCHANGED aux
BookCreateShow ==
    /\ \E valid \in BOOLEAN, venue_id \in VenueIds, artist_id \in ArtistIds,
          start_time \in Times :
           create_show_submission(valid, venue_id, artist_id, start_time)
    /\ UNCHANGED aux
BookDeleteVenue ==
    /\ \E venue_id \in VenueIds : delete_venue(venue_id)
    /\ UNCHANGED aux

BookNext ==
    \/ BookCreateVenue
    \/ BookCreateArtist
    \/ BookCreateShow
    \/ BookDeleteVenue

SpecBook == Init /\ [][BookNext]_vars

HasShow(venue_id, artist_id) ==
    \E r \in BagToSet(Show) : r.venue_id = venue_id /\ r.artist_id = artist_id

ShowKeyUnique ==
    \A r1 \in BagToSet(Show) :
        /\ CopiesIn(r1, Show) = 1
        /\ \A r2 \in BagToSet(Show) :
              (r1.venue_id = r2.venue_id /\ r1.artist_id = r2.artist_id) => r1 = r2

\* a valid create-show submission for a pair that already has a Show
SecondShowForPair ==
    \E venue_id \in VenueIds, artist_id \in ArtistIds, start_time \in Times :
        /\ HasShow(venue_id, artist_id)
        /\ create_show_submission(TRUE, venue_id, artist_id, start_time)

\* C6: there is at most one Show row per (venue_id, artist_id); a valid
\* create-show submission for a pair that has a Show ends as a 500 and
\* leaves the Show table, and so the start_time of the existing row, as it was
C6_OneShowPerPair ==
    /\ []ShowKeyUnique
    /\ [][SecondShowForPair => (resp'.status = 500 /\ Show' = Show)]_vars

\* a second Show for a pair was refused
C6_Witness ==
    /\ resp.handler = "create_show_submission"
    /\ resp.status = 500
    /\ Show # EmptyBag

-----------------------------------------------------------------------------
(* References: booking, together with the edit submissions of venues and   *)
(* artists                                                                 *)

RefsEditVenue ==
    /\ EditVenueWith({NULL}, EditStateInputs, {NULL}, {<<>>})
    /\ UNCHANGED aux
RefsEditArtist ==
    /\ EditArtistWith(EditArtistNameInputs, {NULL}, {<<>>})
    /\ UNCHANGED aux

RefsNext ==
    \/ BookCreateVenue
    \/ BookCreateArtist
    \/ BookCreateShow
    \/ BookDeleteVenue
    \/ RefsEditVenue
    \/ RefsEditArtist

SpecRefs == Init /\ [][RefsNext]_vars

\* C11: every Show row references a Venue row and an Artist row that both
\* exist; a DELETE of a venue that has shows leaves no Show pointing at a
\* removed venue
C11_ShowReferencesExist ==
    \A r \in BagToSet(Show) :
        /\ r.venue_id \in DOMAIN Venue
        /\ r.artist_id \in DOMAIN Artist

\* a DELETE was refused while every venue id had a venue with a show
C11_Witness ==
    /\ resp.handler = "delete_venue"
    /\ resp.status = 500
    /\ DOMAIN Venue = VenueIds
    /\ \A venue_id \in VenueIds : ShowsOfVenue(venue_id) # {}

----------------------------------------------------------------------------
(* Genre attachment: the create, edit and delete handlers of venues and    *)
(* artists, with every list of genre ids a form can carry                  *)


GenresCreateVenue ==
    /\ CreateVenueWith(OneName, OneState, {NULL}, GenreLists)
    /\ UNCHANGED aux
GenresEditVenue ==
    /\ EditVenueWith({NULL}, {NULL}, {NULL}, GenreLists)
    /\ UNCHANGED aux
GenresDeleteVenue ==
    /\ \E venue_id \in VenueIds : delete_venue(venue_id)
    /\ UNCHANGED aux
GenresCreateArtist ==
    /\ CreateArtistWith(OneName, {NULL}, GenreLists)
    /\ UNCHANGED aux
GenresEditArtist ==
    /\ EditArtistWith({NULL}, {NULL}, GenreLists)
    /\ UNCHANGED aux

GenresNext ==
    \/ GenresCreateVenue
    \/ GenresEditVenue
    \/ GenresDeleteVenue
    \/ GenresCreateArtist
    \/ GenresEditArtist

SpecGenres == Init /\ [][GenresNext]_vars

\* C3: the association tables hold at most one row per (venue_id, genre_id)
\* and per (artist_id, genre_id)
C3_AssociationKeyUnique ==
    /\ \A r \in BagToSet(venue_genres) : CopiesIn(r, venue_genres) = 1
    /\ \A r \in BagToSet(artist_genres) : CopiesIn(r, artist_genres) = 1

\* a create submission that matched an artist with a genre named a genre id
\* twice, and the insert was refused
C3_Witness ==
    /\ resp.handler = "create_artist_submission"
    /\ resp.status = 500
    /\ \E artist_id \in DOMAIN Artist : LoadedGenres(artist_genres, artist_id) # {}

----------------------------------------------------------------------------
(* Field population: the create and edit handlers of venues and artists,   *)
(* with null and non-null values for every field                           *)

PopulateCreateVenue ==
    /\ CreateVenueWith(OneName, OneState, PhoneInputs, {<<>>})
    /\ UNCHANGED aux
PopulateEditVenue ==
    /\ EditVenueWith(EditNameInputs, {NULL}, PhoneInputs, {<<>>})
    /\ UNCHANGED aux
PopulateCreateArtist ==
    /\ CreateArtistWith(OneName, PhoneInputs, {<<>>})
    /\ UNCHANGED aux
PopulateEditArtist ==
    /\ EditArtistWith(EditArtistNameInputs, PhoneInputs, {<<>>})
    /\ UNCHANGED aux

PopulateNext ==
    \/ PopulateCreateVenue
    \/ PopulateEditVenue
    \/ PopulateCreateArtist
    \/ PopulateEditArtist

SpecPopulate == Init /\ [][PopulateNext]_vars

\* the row after an update: the submitted value where the entity has the
\* attribute and the value is not null, the previous value elsewhere
Overwritten(old, new, submitted) ==
    /\ DOMAIN new = DOMAIN old
    /\ \A k \in DOMAIN old :
          new[k] = IF k \in DOMAIN submitted /\ submitted[k] # NULL
                   THEN submitted[k] ELSE old[k]
    /\ \A k \in DOMAIN old : old[k] # NULL => new[k] # NULL

\* table, but for row id, is unchanged
OthersKept(old_table, new_table, id) ==
    /\ DOMAIN new_table = DOMAIN old_table
    /\ \A i \in DOMAIN old_table \ {id} : new_table[i] = old_table[i]

VenueUpdated(id, submitted) ==
    /\ Overwritten(Venue[id], Venue'[id], submitted)
    /\ OthersKept(Venue, Venue', id)
    /\ Artist' = Artist

ArtistUpdated(id, submitted) ==
    /\ Overwritten(Artist[id], Artist'[id], submitted)
    /\ OthersKept(Artist, Artist', id)
    /\ Venue' = Venue

\* a valid submission that targets or matches an existing row updates it
\* by the rule
UpdateCases ==
    /\ resp'.handler = "edit_venue_submission" =>
       \A venue_id \in DOMAIN Venue, name \in EditNameInputs, city \in EditCityInputs,
          state \in EditStateInputs, phone \in PhoneInputs :
          edit_venue_submission(venue_id, TRUE, name, city, state, phone, <<>>)
             => VenueUpdated(venue_id,
                    [name |-> name, city |-> city, state |-> state,
                     phone |-> phone, csrf_token |-> <<"t">>])
    /\ resp'.handler = "edit_artist_submission" =>
       \A artist_id \in DOMAIN Artist, name \in EditNameInputs, phone \in PhoneInputs :
          edit_artist_submission(artist_id, TRUE, name, phone, <<>>)
             => ArtistUpdated(artist_id,
                    [name |-> name, phone |-> phone, csrf_token |-> <<"t">>])
    /\ resp'.handler = "create_venue_submission" =>
       \A name \in NameInputs, city \in CityInputs, state \in StateInputs,
          phone \in PhoneInputs :
          (/\ create_venue_submission(TRUE, name, city, state, phone, <<>>)
           /\ DOMAIN Venue' = DOMAIN Venue)
             => \E venue_id \in DOMAIN Venue :
                   /\ VenueKey(venue_id) = <<str_title(name), str_title(city), state>>
                   /\ VenueUpdated(venue_id,
                          [name |-> str_title(name), city |-> str_title(city),
                           state |-> state, phone |-> phone,
                           csrf_token |-> <<"t">>])
    /\ resp'.handler = "create_artist_submission" =>
       \A name \in NameInputs, phone \in PhoneInputs :
          (/\ create_artist_submission(TRUE, name, phone, <<>>)
           /\ DOMAIN Artist' = DOMAIN Artist)
             => \E artist_id \in DOMAIN Artist :
                   /\ Artist[artist_id].name = str_title(name)
                   /\ ArtistUpdated(artist_id,
                          [name |-> str_title(name), phone |-> phone,
                           csrf_token |-> <<"t">>])

\* only a request that committed can have updated a row
UpdateFollowsRule == resp'.flash = "success" => UpdateCases

\* C10: an update overwrites exactly the attributes the entity has and whose
\* submitted value is not null; every other attribute and every other row
\* keeps its value, and no stored non-null field becomes null
C10_PopulateFrame == [][UpdateFollowsRule]_vars

\* an edit has replaced the name of a venue whose phone was set
C10_Witness ==
    /\ resp.handler = "edit_venue_submission"
    /\ resp.status = 302
    /\ \E venue_id \in DOMAIN Venue :
          /\ Venue[venue_id].name = <<"a", "B">>
          /\ Venue[venue_id].phone = <<"1">>

----------------------------------------------------------------------------
(* The projections, applied to every list of rows up to a length           *)

NotApplied == [done |-> FALSE]

\* the Show rows a venue can have
ShowRows ==
    {[venue_id |-> 1, artist_id |-> a, start_time |-> t] :
        a \in ArtistIds, t \in Times}

ShowLists == UNION {[1..n -> ShowRows] : n \in 0..MaxLen}

AnyClock == 0..(MaxTime + 1)

SomeVenue == [NewVenue EXCEPT !.name = <<"A", "b">>]
SomeArtist == [NewArtist EXCEPT !.name = <<"A", "b">>]

ShowsInit ==
    /\ EmptyDatabase
    /\ arg \in [shows : ShowLists, today : AnyClock]
    /\ out = NotApplied

ApplyGetShows ==
    /\ ~out.done
    /\ out' = [done |-> TRUE,
               shows |-> get_shows(arg.shows, arg.today),
               venue |-> parse_venue(1, SomeVenue, arg.shows, arg.today),
               artist |-> parse_artist(1, SomeArtist, arg.shows, arg.today)]
    /\ UNCHANGED <<tables, venue_id_seq, artist_id_seq, resp, sess, arg>>

ShowsNext == ApplyGetShows

SpecShows == ShowsInit /\ [][ShowsNext]_vars

Cities == {<<"A">>, <<"B">>}

\* a Venue row as the /venues handler reads it: id, name, city, state and
\* its shows
VenueAt(i, city, state, artists) ==
    [id |-> i, name |-> <<"A", "b">>, city |-> city, state |-> state,
     artists |-> artists]

OneUpcomingShow == <<[venue_id |-> 1, artist_id |-> 1, start_time |-> MaxTime]>>

\* the lists Venue.query.all() can return: rows with distinct ids
VenueLists ==
    UNION {{[i \in 1..n |-> VenueAt(i, c[i], st[i], sh[i])] :
               c \in [1..n -> Cities], st \in [1..n -> StateInputs],
               sh \in [1..n -> {<<>>, OneUpcomingShow}]} : n \in 0..MaxLen}

GroupsInit ==
    /\ EmptyDatabase
    /\ arg \in [venues : VenueLists, today : Clock]
    /\ out = NotApplied

ApplyVenues ==
    /\ ~out.done
    /\ out' = [done |-> TRUE, areas |-> venues(arg.venues, arg.today)]
    /\ UNCHANGED <<tables, venue_id_seq, artist_id_seq, resp, sess, arg>>

GroupsNext == ApplyVenues

SpecGroups == GroupsInit /\ [][GroupsNext]_vars

\* where venue id sits in the areas: <<group, position>>
Places(areas, id) ==
    {<<g, j>> \in (1..Len(areas)) \X (1..MaxLen + 1) :
        j <= Len(areas[g].venues) /\ areas[g].venues[j].id = id}

\* the index in the input of the venue with this id
IndexOf(venue_list, id) == CHOOSE i \in 1..Len(venue_list) : venue_list[i].id = id

\* the first index in the input with this city and state
FirstAt(venue_list, city, state) ==
    Min({i \in 1..Len(venue_list) :
            venue_list[i].city = city /\ venue_list[i].state = state})

\* C9: every input venue is in exactly one group, which has the venue's
\* city and state; no two groups share a (city, state); the groups are in the
\* order in which their (city, state) first occurs in the input and the
\* venues of a group are in input order
C9_GroupedByLocation ==
    out.done =>
        LET input == arg.venues
            areas == out.areas
        IN /\ \A i \in 1..Len(input) :
                 /\ Cardinality(Places(areas, input[i].id)) = 1
                 /\ \A p \in Places(areas, input[i].id) :
                       /\ areas[p[1]].city = input[i].city
                       /\ areas[p[1]].state = input[i].state
                       /\ areas[p[1]].venues[p[2]].name = input[i].name
           /\ \A g \in 1..Len(areas), j \in 1..(MaxLen + 1) :
                 j <= Len(areas[g].venues) =>
                    \E i \in 1..Len(input) : input[i].id = areas[g].venues[j].id
           /\ \A g1, g2 \in 1..Len(areas) :
                 g1 # g2 =>
                    <<areas[g1].city, areas[g1].state>> #
                    <<areas[g2].city, areas[g2].state>>
           /\ \A g1, g2 \in 1..Len(areas) :
                 g1 < g2 =>
                    FirstAt(input, areas[g1].city, areas[g1].state) <
                    FirstAt(input, areas[g2].city, areas[g2].state)
           /\ \A g \in 1..Len(areas), j1, j2 \in 1..(MaxLen + 1) :
                 (j1 < j2 /\ j2 <= Len(areas[g].venues)) =>
                    IndexOf(input, areas[g].venues[j1].id) <
                    IndexOf(input, areas[g].venues[j2].id)

\* two groups, the first with two venues that were not adjacent in the input
C9_Witness ==
    /\ out.done
    /\ Len(out.areas) = 2
    /\ Len(out.areas[1].venues) = 2
    /\ out.areas[1].venues[2].id = 3

----------------------------------------------------------------------------
(* The create-venue form submitted twice: the venue handlers, with the     *)
(* valid create submission handled last kept in arg                        *)

NoSubmission ==
    [handler |-> "none", name |-> NULL, city |-> NULL, state |-> NULL,
     genres |-> <<>>]

Submission(name, city, state, genres_ids) ==
    [handler |-> "create_venue_submission", name |-> name, city |-> city,
     state |-> state, genres |-> genres_ids]

TwiceInit ==
    /\ EmptyDatabase
    /\ arg = NoSubmission
    /\ out = <<>>

TwiceCreateVenue ==
    /\ \E valid \in BOOLEAN, name \in NameInputs, city \in CityInputs,
          state \in StateInputs, genres_ids \in GenreLists :
           /\ create_venue_submission(valid, name, city, state, NULL, genres_ids)
           /\ arg' = IF valid THEN Submission(name, city, state, genres_ids)
                     ELSE NoSubmission
    /\ UNCHANGED <<sess, out>>

TwiceEditVenue ==
    /\ EditVenueWith({NULL}, EditStateInputs, {NULL}, {<<>>})
    /\ arg' = NoSubmission
    /\ UNCHANGED <<sess, out>>

TwiceDeleteVenue ==
    /\ \E venue_id \in VenueIds : delete_venue(venue_id)
    /\ arg' = NoSubmission
    /\ UNCHANGED <<sess, out>>

TwiceNext ==
    \/ TwiceCreateVenue
    \/ TwiceEditVenue
    \/ TwiceDeleteVenue

SpecTwice == TwiceInit /\ [][TwiceNext]_vars

SubmittedKey(submission) ==
    <<str_title(submission.name), str_title(submission.city), submission.state>>

Range(f) == {f[i] : i \in DOMAIN f}

\* this step handles a valid create-venue submission right after another
\* with the same name, city and state
SubmittedTwice ==
    /\ arg.handler = "create_venue_submission"
    /\ arg'.handler = "create_venue_submission"
    /\ SubmittedKey(arg) = SubmittedKey(arg')

\* C1: after the create-venue form is submitted twice with the same name,
\* city and state there is exactly one Venue row for them, the second
\* submission inserts no row, and the row has the genres of both submissions
C1_SecondCreateIsUpdate ==
    [][SubmittedTwice =>
          LET rows == {id \in DOMAIN Venue' :
                          VenueKeyIn(Venue', id) = SubmittedKey(arg')}
          IN /\ Cardinality(rows) = 1
             /\ DOMAIN Venue' = DOMAIN Venue
             /\ \A id \in rows :
                   Range(arg.genres) \cup Range(arg'.genres)
                      \subseteq LoadedGenres(venue_genres', id)]_vars

----------------------------------------------------------------------------
(* Two create requests in flight at once: each worker runs a create        *)
(* handler in two steps, up to the lookup and from there to the response   *)

Found(handler, found, data, genres_ids) ==
    [pc |-> "found", handler |-> handler, found |-> found, data |-> data,
     genres |-> genres_ids]

\* create_venue_submission of a valid form up to .first()
RaceLookupVenue(w) ==
    /\ sess[w].pc = "idle"
    /\ \E name \in OneName, city \in CityInputs, state \in OneState,
          genres_ids \in OneGenreLists :
          LET form_name == str_title(name)
              form_city == str_title(city)
              data == VenueFormData(form_name, form_city, state, NULL)
          IN \E venue \in FirstVenue(form_name, form_city, state) :
                sess' = [sess EXCEPT ![w] =
                            Found("create_venue_submission", venue, data, genres_ids)]
    /\ UNCHANGED <<tables, venue_id_seq, artist_id_seq, resp, arg, out>>

\* create_venue_submission from "if not venue" to the response
RaceSaveVenue(w) ==
    /\ sess[w].pc = "found"
    /\ sess[w].handler = "create_venue_submission"
    /\ SaveVenue("create_venue_submission", sess[w].found, sess[w].data,
                 sess[w].genres,
                 Render("create_venue_submission", "pages/home.html", "success"))
    /\ sess' = [sess EXCEPT ![w] = Idle]
    /\ UNCHANGED <<artist_side, Show, arg, out>>

\* create_artist_submission of a valid form up to .first()
RaceLookupArtist(w) ==
    /\ sess[w].pc = "idle"
    /\ \E name \in OneName, genres_ids \in OneGenreLists :
          LET form_name == str_title(name)
              data == ArtistFormData(form_name, NULL)
          IN \E artist \in FirstArtist(form_name) :
                sess' = [sess EXCEPT ![w] =
                            Found("create_artist_submission", artist, data, genres_ids)]
    /\ UNCHANGED <<tables, venue_id_seq, artist_id_seq, resp, arg, out>>

\* create_artist_submission from "if not artist" to the response
RaceSaveArtist(w) ==
    /\ sess[w].pc = "found"
    /\ sess[w].handler = "create_artist_submission"
    /\ SaveArtist("create_artist_submission", sess[w].found, sess[w].data,
                  sess[w].genres,
                  Render("create_artist_submission", "pages/home.html", "success"))
    /\ sess' = [sess EXCEPT ![w] = Idle]
    /\ UNCHANGED <<venue_side, Show, arg, out>>

LookupVenue == \E w \in Workers : RaceLookupVenue(w)
CommitVenue == \E w \in Workers : RaceSaveVenue(w)
LookupArtist == \E w \in Workers : RaceLookupArtist(w)
CommitArtist == \E w \in Workers : RaceSaveArtist(w)

RaceNext ==
    \/ LookupVenue
    \/ CommitVenue
    \/ LookupArtist
    \/ CommitArtist

SpecRace == Init /\ [][RaceNext]_vars

\* worker w, whose lookup found no row, finishes its request in this step
FinishesUnmatched(w, handler) ==
    /\ sess[w].pc = "found"
    /\ sess[w].handler = handler
    /\ sess[w].found = 0
    /\ sess'[w].pc = "idle"

\* C7: the insert is not serialised with the lookup: a create request whose
\* lookup found no row inserts a row with its natural key when it commits,
\* also when another request has committed a row with that key since
C7_InsertAfterStaleLookup ==
    [][\A w \in Workers :
          /\ FinishesUnmatched(w, "create_venue_submission") =>
                /\ venue_id_seq' \notin DOMAIN Venue
                /\ DOMAIN Venue' = DOMAIN Venue \cup {venue_id_seq'}
                /\ VenueKeyIn(Venue', venue_id_seq') =
                      <<sess[w].data.name, sess[w].data.city, sess[w].data.state>>
          /\ FinishesUnmatched(w, "create_artist_submission") =>
                /\ artist_id_seq' \notin DOMAIN Artist
                /\ DOMAIN Artist' = DOMAIN Artist \cup {artist_id_seq'}
                /\ Artist'[artist_id_seq'].name = sess[w].data.name]_vars

\* two Venue rows with one (name, city, state) and two Artist rows with one
\* name
C7_Witness ==
    /\ \E i, j \in DOMAIN Venue : i # j /\ VenueKey(i) = VenueKey(j)
    /\ \E i, j \in DOMAIN Artist : i # j /\ Artist[i].name = Artist[j].name

====
